---- MODULE Spec2Model ----
(***************************************************************************)
(* Model of analyze_engagement (src/nike_social_media_analysis.py).        *)
(*                                                                         *)
(* A Python dict is a function whose DOMAIN is the set of keys present,    *)
(* so `k in entry` is k \in DOMAIN entry.  Values that may be None are     *)
(* kept as tuples so that they compare with None: None is <<>>, a rank idx *)
(* is <<idx>>, and an engagement rate is the exact quotient <<n, d>> in    *)
(* lowest terms (d > 0).  Python's / on ints is a correctly rounded true   *)
(* division, so on the small integers used here two quotients are equal    *)
(* (ordered) as floats exactly when they are equal (ordered) as rationals. *)
(***************************************************************************)
EXTENDS Integers, Sequences, FiniteSets, TLC

VARIABLES
    data,        \* the list of dicts analyze_engagement annotates in place
    arg,         \* the value of data when the last call was made
    status,      \* "ready" before any call, then "returned" or "raised"
    reanalyzed   \* the last call was made on a list an earlier call returned

vars == <<data, arg, status, reanalyzed>>

\* ---- bound of the model: the longest input list ----
MaxLen == 2

\* ---- values ----
None == <<>>

Platforms == {"TikTok", "YouTube", "Instagram"}

RECURSIVE Gcd(_, _)
Gcd(a, b) == IF b = 0 THEN a ELSE Gcd(b, a % b)

\* the value of the true division n / d, d > 0
Quotient(n, d) == LET g == Gcd(n, d) IN <<n \div g, d \div g>>

\* float comparison r > s of two rates
RateGT(r, s) == r[1] * s[2] > s[1] * r[2]

\* entry[k] = v
Put(e, k, v) == [x \in DOMAIN e \cup {k} |-> IF x = k THEN v ELSE e[x]]

\* entry.get("followers") is truthy
FollowersTruthy(e) == "followers" \in DOMAIN e /\ e.followers # 0

\* line 55: the branch that keeps the supplied rate
IsTikTok(e) == "platform" \in DOMAIN e /\ e.platform = "TikTok"

\* line 57 raises KeyError
RaisesKeyError(e) == IsTikTok(e) /\ "engagement_rate" \notin DOMAIN e

\* line 59, mutated: comments subtracted instead of added
ComputeRateSub(e) ==
    IF e.avg_likes - e.avg_comments >= 0
    THEN Quotient(e.avg_likes - e.avg_comments, e.followers)
    ELSE LET q == Quotient(e.avg_comments - e.avg_likes, e.followers)
         IN <<0 - q[1], q[2]>>

\* line 59
ComputeRate(e) == Quotient(e.avg_likes + e.avg_comments, e.followers)

\* lines 55-62: the body of the first loop, for an entry that does not raise
SetRate(e) ==
    IF IsTikTok(e)
    THEN Put(e, "engagement_rate", e.engagement_rate)
    ELSE IF {"avg_likes", "avg_comments"} \subseteq DOMAIN e /\ FollowersTruthy(e)
         THEN Put(e, "engagement_rate", ComputeRate(e))
         ELSE Put(e, "engagement_rate", None)

\* index of the first entry on which the first loop raises, 0 if none
FirstRaise(d) ==
    IF \E i \in 1..Len(d) : RaisesKeyError(d[i])
    THEN CHOOSE i \in 1..Len(d) :
            /\ RaisesKeyError(d[i])
            /\ \A j \in 1..(i - 1) : ~RaisesKeyError(d[j])
    ELSE 0

\* lines 54-62 run to completion
RateLoop(d) == [i \in 1..Len(d) |-> SetRate(d[i])]

\* lines 54-62 interrupted by the KeyError at entry k: the entries before k
\* have been annotated in place
RateLoopUntil(d, k) == [i \in 1..Len(d) |-> IF i < k THEN SetRate(d[i]) ELSE d[i]]

\* line 65: the indices, in input order, of the entries the filter keeps
RECURSIVE Rated(_, _)
Rated(d, i) ==
    IF i > Len(d) THEN <<>>
    ELSE IF d[i].engagement_rate # None
         THEN <<i>> \o Rated(d, i + 1)
         ELSE Rated(d, i + 1)

\* line 66, mutated: the current rank used as a secondary sort key
KeyGTRank(a, b) ==
    LET rk(e) == IF "rank" \in DOMAIN e /\ e.rank # None THEN e.rank[1] ELSE 0
    IN \/ RateGT(a.engagement_rate, b.engagement_rate)
       \/ /\ a.engagement_rate = b.engagement_rate
          /\ rk(a) > rk(b)

\* line 66: key(a) > key(b)
KeyGT(a, b) == RateGT(a.engagement_rate, b.engagement_rate)

\* lines 64-68, mutated: an unstable descending sort, ties reversed
RECURSIVE InsertUnstable(_, _, _)
InsertUnstable(d, s, i) ==
    IF s = <<>> THEN <<i>>
    ELSE IF KeyGT(d[Head(s)], d[i])
         THEN <<Head(s)>> \o InsertUnstable(d, Tail(s), i)
         ELSE <<i>> \o s

\* lines 64-68: sorted(..., reverse=True) is stable; an entry goes after
\* every entry whose key is greater than or equal to its own
RECURSIVE Insert(_, _, _)
Insert(d, s, i) ==
    IF s = <<>> THEN <<i>>
    ELSE IF KeyGT(d[i], d[Head(s)])
         THEN <<i>> \o s
         ELSE <<Head(s)>> \o Insert(d, Tail(s), i)

\* lines 64-68: ranked, as indices into data
RECURSIVE SortedDesc(_, _)
SortedDesc(d, idxs) ==
    IF idxs = <<>> THEN <<>>
    ELSE Insert(d, SortedDesc(d, SubSeq(idxs, 1, Len(idxs) - 1)), idxs[Len(idxs)])

Ranked(d) == SortedDesc(d, Rated(d, 1))

\* position of index i in ranked, 0 if it is not there
Position(r, i) == IF \E k \in 1..Len(r) : r[k] = i
                  THEN CHOOSE k \in 1..Len(r) : r[k] = i
                  ELSE 0

\* lines 69-70, mutated: enumerate from 0
RankEntryFromZero(e, idx) == Put(e, "rank", <<idx - 1>>)

\* lines 69-70: entry["rank"] = idx
RankEntry(e, idx) == Put(e, "rank", <<idx>>)

\* lines 71-72: entry.setdefault("rank", None)
SetDefaultRank(e) == IF "rank" \in DOMAIN e THEN e ELSE Put(e, "rank", None)

\* lines 64-72 on the rate-annotated data
RankAll(d) ==
    LET r == Ranked(d)
    IN [i \in 1..Len(d) |->
          IF Position(r, i) # 0
          THEN SetDefaultRank(RankEntry(d[i], Position(r, i)))
          ELSE SetDefaultRank(d[i])]

\* lines 52-73 when nothing raises
analyze_engagement(d) == RankAll(RateLoop(d))

\* ---- inputs ----
FollowerCounts == {0, 1}
AvgCounts == {0, 1}
OverrideRates == {<<1, 1>>}
StaleRanks == {<<1>>}

AddOpt(S, k, V) == S \cup {Put(e, k, v) : e \in S, v \in V}

\* the fields of an input record other than platform
InputFields ==
    AddOpt(AddOpt(AddOpt(AddOpt(
        {[followers |-> f] : f \in FollowerCounts},
        "avg_likes", AvgCounts),
        "avg_comments", AvgCounts),
        "engagement_rate", OverrideRates),
        "rank", StaleRanks)

\* platform is unique within the input sequence
PlatformSeqs(n) == {ps \in [1..n -> Platforms] :
                      \A i, j \in 1..n : i # j => ps[i] # ps[j]}

\* the concrete scenario of the testable properties; A, B, C are labels
ScenarioFields ==
    << [followers |-> 100, avg_likes |-> 10, avg_comments |-> 0],
       [followers |-> 200, avg_likes |-> 10, avg_comments |-> 10],
       [followers |-> 50, avg_likes |-> 0, avg_comments |-> 0,
        engagement_rate |-> <<1, 2>>] >>

Named(fs, ps) == [i \in 1..Len(fs) |-> Put(fs[i], "platform", ps[i])]

\* the scenario's records under their labels, and with the record that
\* carries the supplied rate named as the platform line 55 tests for
ScenarioPlatforms == {<<"A", "B", c>> : c \in {"C", "TikTok"}}

Init ==
    /\ \/ \E n \in 0..MaxLen : \E ps \in PlatformSeqs(n) :
             \E fs \in [1..n -> InputFields] : data = Named(fs, ps)
       \/ \E ps \in ScenarioPlatforms : data = Named(ScenarioFields, ps)
    /\ arg = data
    /\ status = "ready"
    /\ reanalyzed = FALSE

\* analyze_engagement(data) returns
AnalyzeReturns ==
    /\ status # "raised"
    /\ FirstRaise(data) = 0
    /\ arg' = data
    /\ data' = analyze_engagement(data)
    /\ status' = "returned"
    /\ reanalyzed' = (status = "returned")

\* analyze_engagement(data) raises KeyError at line 57
AnalyzeRaises ==
    /\ status # "raised"
    /\ FirstRaise(data) # 0
    /\ arg' = data
    /\ data' = RateLoopUntil(data, FirstRaise(data))
    /\ status' = "raised"
    /\ reanalyzed' = (status = "returned")

Next == AnalyzeReturns \/ AnalyzeRaises

Spec == Init /\ [][Next]_vars

\* ---- the claims ----

\* the record carries a supplied engagement rate
HasOverride(e) == "engagement_rate" \in DOMAIN e /\ e.engagement_rate # None

\* avg_likes and avg_comments present and followers non-zero
Computable(e) == {"avg_likes", "avg_comments"} \subseteq DOMAIN e /\ e.followers # 0

HasRate(e) == "engagement_rate" \in DOMAIN e /\ e.engagement_rate # None
HasRank(e) == "rank" \in DOMAIN e /\ e.rank # None

Idx == 1..Len(data)
RatedIdx == {i \in Idx : HasRate(data[i])}

\* C1: every record that carries a supplied engagement_rate, whatever its
\* platform, is returned with exactly that rate.
C1_OverrideKept ==
    status = "returned" =>
        \A i \in Idx : HasOverride(arg[i]) =>
            data[i].engagement_rate = arg[i].engagement_rate

\* C2: the call never raises, and every record ends with an engagement_rate
\* and a rank (each possibly None).
C2_Total ==
    status # "ready" =>
        /\ status = "returned"
        /\ \A i \in Idx : {"engagement_rate", "rank"} \subseteq DOMAIN data[i]

\* C3: a record with no supplied rate, avg_likes and avg_comments present and
\* followers non-zero is returned with
\* engagement_rate = (avg_likes + avg_comments) / followers.
C3_Computed ==
    status # "ready" =>
        \A i \in Idx : (~HasOverride(arg[i]) /\ Computable(arg[i])) =>
            /\ status = "returned"
            /\ data[i].engagement_rate =
                  Quotient(arg[i].avg_likes + arg[i].avg_comments, arg[i].followers)

\* C4: a record with no supplied rate whose rate is not computable is returned
\* with engagement_rate None and rank None, and the call does not fault.
C4_NotComputable ==
    status # "ready" =>
        \A i \in Idx : (~HasOverride(arg[i]) /\ ~Computable(arg[i])) =>
            /\ status = "returned"
            /\ data[i].engagement_rate = None
            /\ data[i].rank = None

\* C5: in the returned list a record has a rank, a positive integer, if and
\* only if it has a non-None engagement_rate.
C5_RankIffRate ==
    status = "returned" =>
        \A i \in Idx :
            /\ HasRank(data[i]) <=> HasRate(data[i])
            /\ HasRank(data[i]) => data[i].rank[1] >= 1

\* C6: the ranks of the records with a non-None engagement_rate are exactly
\* 1..K, K the number of such records, each held by exactly one record.
C6_RanksContiguous ==
    status = "returned" =>
        /\ \A i \in RatedIdx :
              HasRank(data[i]) /\ data[i].rank[1] \in 1..Cardinality(RatedIdx)
        /\ \A k \in 1..Cardinality(RatedIdx) :
              Cardinality({i \in RatedIdx : data[i].rank = <<k>>}) = 1

\* a returned list with at least two rated records, one of which came in
\* with a rank that the call replaced
C6_Witness ==
    /\ status = "returned"
    /\ Cardinality(RatedIdx) >= 2
    /\ \E i \in RatedIdx : "rank" \in DOMAIN arg[i] /\ arg[i].rank # data[i].rank

\* C7: the ranks are those of a stable descending sort by rate: for rated a
\* and b, rank(a) < rank(b) exactly when rate(a) > rate(b), or the rates are
\* equal and a precedes b in the input; rank 1 has the maximum rate.
C7_StableDescending ==
    status = "returned" =>
        /\ \A a, b \in RatedIdx :
              (data[a].rank[1] < data[b].rank[1]) <=>
                 \/ RateGT(data[a].engagement_rate, data[b].engagement_rate)
                 \/ /\ data[a].engagement_rate = data[b].engagement_rate
                    /\ a < b
        /\ \A a \in RatedIdx : data[a].rank = <<1>> =>
              \A b \in RatedIdx :
                 ~RateGT(data[b].engagement_rate, data[a].engagement_rate)

\* a first return with two rated records of equal rate, and a rated record
\* that comes later in the input than one of a smaller rate
C7_Witness ==
    /\ status = "returned"
    /\ ~reanalyzed
    /\ \E a, b \in RatedIdx :
          a < b /\ data[a].engagement_rate = data[b].engagement_rate
    /\ \E a, b \in RatedIdx :
          a < b /\ RateGT(data[b].engagement_rate, data[a].engagement_rate)

\* C8: a call on the list an earlier call returned returns too and leaves the
\* engagement_rate and the rank of every record as they were.
C8_Idempotent ==
    [][status = "returned" =>
          /\ status' = "returned"
          /\ Len(data') = Len(data)
          /\ \A i \in Idx :
                /\ data'[i].engagement_rate = data[i].engagement_rate
                /\ data'[i].rank = data[i].rank]_vars

\* the second call has returned, on a returned list that holds two rated
\* records of equal rate
C8_Witness ==
    /\ status = "returned"
    /\ reanalyzed
    /\ arg = data
    /\ \E a, b \in RatedIdx :
          a < b /\ data[a].engagement_rate = data[b].engagement_rate

Fields(e) == [k \in DOMAIN e \ {"platform"} |-> e[k]]

IsScenario(d) ==
    /\ Len(d) = Len(ScenarioFields)
    /\ \A i \in 1..Len(d) : Fields(d[i]) = ScenarioFields[i]

\* C9: on A (followers 100, likes 10, comments 0), B (200, 10, 10),
\* C (50, 0, 0, supplied rate 0.5) the call yields the rates 0.10, 0.10, 0.5
\* and the ranks C = 1, A = 2, B = 3.
C9_Scenario ==
    (status # "ready" /\ ~reanalyzed /\ IsScenario(arg)) =>
        /\ status = "returned"
        /\ data[1].engagement_rate = <<1, 10>> /\ data[1].rank = <<2>>
        /\ data[2].engagement_rate = <<1, 10>> /\ data[2].rank = <<3>>
        /\ data[3].engagement_rate = <<1, 2>> /\ data[3].rank = <<1>>

RateInUnit(r) == r[1] >= 0 /\ r[1] <= r[2]

\* C10 as stated: every non-None engagement_rate lies in [0, 1] (the inputs
\* are non-negative integers and the supplied rates lie in [0, 1]).
C10_RateInUnitInterval ==
    status = "returned" =>
        \A i \in RatedIdx : RateInUnit(data[i].engagement_rate)

\* C10 as amended: every non-None engagement_rate is non-negative, and it is
\* at most 1 when it is the supplied rate line 57 keeps or when
\* avg_likes + avg_comments <= followers.
C10_RateNonNegative ==
    status = "returned" =>
        \A i \in RatedIdx :
            /\ data[i].engagement_rate[1] >= 0
            /\ (IsTikTok(arg[i]) \/ arg[i].avg_likes + arg[i].avg_comments <= arg[i].followers)
                  => RateInUnit(data[i].engagement_rate)

\* a returned list with a computed rate above 1 and a computed rate in [0, 1]
C10_Witness ==
    /\ status = "returned"
    /\ \E i \in RatedIdx : ~IsTikTok(arg[i]) /\ ~RateInUnit(data[i].engagement_rate)
    /\ \E i \in RatedIdx : ~IsTikTok(arg[i]) /\ RateInUnit(data[i].engagement_rate)

====
